---- MODULE Spec2Model ----
(***************************************************************************)
(* Counter App (src/counter_app/app.js): five React counter components and *)
(* the root App that mounts them.  Each instance owns one hook (useState   *)
(* or useReducer).  A handler queues an update on the hook; a render of    *)
(* the instance applies the queued updates in order, binds the resulting   *)
(* state in the render's closure and writes the <p> text.                  *)
(***************************************************************************)
EXTENDS Integers, Sequences, FiniteSets, TLC

VARIABLES
    mounted,       \* the component instances that are mounted
    memo,          \* per instance: the hook's committed state
    queue,         \* per instance: updates queued by handlers, not yet applied
    rendered,      \* per instance: the state bound by the latest render (`count`, `state`)
    display,       \* per instance: the text of the <p> element
    hist,          \* per instance: the events so far (activations and renders)
    events,        \* the number of activations and unprompted renders so far
    handlers,      \* per instance: the functions attached to its two buttons
    shares,        \* the instances whose hook state is the initialState object itself
    initialState   \* the module-level object of line 79

vars == <<mounted, memo, queue, rendered, display, hist, events, handlers,
          shares, initialState>>

----------------------------------------------------------------------------
(* Bounds *)

\* activations and unprompted renders (renders that find no queued update),
\* over all instances together
MaxEvents == 3
\* the same, where the renders React schedules are required to happen
MaxFairEvents == 2
\* the same, when only the FunctionalCounter and the CallbackCounter are driven
MaxPairEvents == 5

----------------------------------------------------------------------------
(* JavaScript numbers: an integer or NaN *)

Num(n) == [nan |-> FALSE, val |-> n]
NaN == [nan |-> TRUE, val |-> 0]

\* a + b (and a - k as a + (-k)): NaN is absorbing
NumAdd(a, b) == IF a.nan \/ b.nan THEN NaN ELSE Num(a.val + b.val)

\* String(n), as JSX renders {count}
NumToString(a) == IF a.nan THEN "NaN" ELSE ToString(a.val)

----------------------------------------------------------------------------
(* Strings are sequences of one-character strings; a data attribute is     *)
(* either absent (dataset.change is undefined) or a string.                *)

Undefined == [present |-> FALSE, s |-> <<>>]
Str(s) == [present |-> TRUE, s |-> s]

\* as Coalesce, with || in place of ??: the empty string is replaced too
Coalesce_or(a, b) == IF a.present /\ a.s # <<>> THEN a ELSE b

\* a ?? b
Coalesce(a, b) == IF a.present THEN a ELSE b

WhiteSpace == {" ", "\t", "\n"}
LowerDigits == <<"0", "1", "2", "3", "4", "5", "6", "7", "8", "9",
                 "a", "b", "c", "d", "e", "f">>
UpperDigits == <<"0", "1", "2", "3", "4", "5", "6", "7", "8", "9",
                 "A", "B", "C", "D", "E", "F">>

IsDigit(c, radix) ==
    \E v \in 1..radix : LowerDigits[v] = c \/ UpperDigits[v] = c
DigitVal(c) ==
    (CHOOSE v \in 1..16 : LowerDigits[v] = c \/ UpperDigits[v] = c) - 1

RECURSIVE TrimStart(_)
TrimStart(s) ==
    IF s # <<>> /\ Head(s) \in WhiteSpace THEN TrimStart(Tail(s)) ELSE s

\* the longest prefix of s made of digits of the radix
RECURSIVE DigitPrefix(_, _)
DigitPrefix(s, radix) ==
    IF s # <<>> /\ IsDigit(Head(s), radix)
    THEN <<Head(s)>> \o DigitPrefix(Tail(s), radix)
    ELSE <<>>

RECURSIVE DigitsValue(_, _, _)
DigitsValue(s, radix, acc) ==
    IF s = <<>> THEN acc
    ELSE DigitsValue(Tail(s), radix, acc * radix + DigitVal(Head(s)))

\* parseInt(string) with no radix argument
parseInt(str) ==
    LET s1 == TrimStart(str.s)
        signed == s1 # <<>> /\ Head(s1) \in {"+", "-"}
        sign == IF s1 # <<>> /\ Head(s1) = "-" THEN -1 ELSE 1
        s2 == IF signed THEN Tail(s1) ELSE s1
        hex == Len(s2) >= 2 /\ s2[1] = "0" /\ s2[2] \in {"x", "X"}
        radix == IF hex THEN 16 ELSE 10
        s3 == IF hex THEN Tail(Tail(s2)) ELSE s2
        z == DigitPrefix(s3, radix)
    IN  IF z = <<>> THEN NaN ELSE Num(sign * DigitsValue(z, radix, 0))

----------------------------------------------------------------------------
(* Instances and their controls *)

Variants == {"Basic", "Functional", "Callback", "DataAttribute", "Reducer"}

\* the five instances App mounts, in order, and one more ReducerCounter
AppInstances == 1..5
Instances == 1..6
Variant(i) ==
    CASE i = 1 -> "Basic"
      [] i = 2 -> "Functional"
      [] i = 3 -> "Callback"
      [] i = 4 -> "DataAttribute"
      [] i \in {5, 6} -> "Reducer"

\* a control: its data-testid and its data-change attribute
Control(testid, change) == [testid |-> testid, change |-> change]
DecrementButton == Control("decrement-button", Undefined)
IncrementButton == Control("increment-button", Undefined)
DataDecrementButton == Control("decrement-button", Str(<<"-", "1">>))
DataIncrementButton == Control("increment-button", Str(<<"1">>))

\* data-change values of a control other than the two rendered ones
OtherChanges ==
    {Undefined, Str(<<>>), Str(<<"a", "b", "c">>), Str(<<"2">>),
     Str(<<"-", "3">>)}
DataControls ==
    {DataDecrementButton, DataIncrementButton}
        \cup {Control("other", c) : c \in OtherChanges}

\* action types other than the two the buttons dispatch
OtherTypes == {"reset"}

----------------------------------------------------------------------------
(* Hook state and updates *)

\* as InitialMemo, had BasicCounter and its like been written useState(1)
InitialMemo_one(v) == IF v = "Reducer" THEN initialState ELSE Num(1)

\* the state of a useState(0) hook is a number, of the useReducer hook an
\* object {count}
InitialMemo(v) == IF v = "Reducer" THEN initialState ELSE Num(0)

Count(v, st) == IF v = "Reducer" THEN st.count ELSE st

\* as reducer, had the decrement stopped at zero: Math.max(0, state.count - 1)
reducer_clamped(state, action) ==
    CASE action.type = "increment" -> [count |-> NumAdd(state.count, Num(1))]
      [] action.type = "decrement" ->
            [count |-> IF state.count.nan \/ state.count.val > 0
                       THEN NumAdd(state.count, Num(-1)) ELSE Num(0)]
      [] OTHER -> state

\* as reducer, with a default case that falls back to a fresh zero state
reducer_reset(state, action) ==
    CASE action.type = "increment" -> [count |-> NumAdd(state.count, Num(1))]
      [] action.type = "decrement" -> [count |-> NumAdd(state.count, Num(-1))]
      [] OTHER -> [count |-> Num(0)]

reducer(state, action) ==
    CASE action.type = "increment" -> [count |-> NumAdd(state.count, Num(1))]
      [] action.type = "decrement" -> [count |-> NumAdd(state.count, Num(-1))]
      [] OTHER -> state

\* queued updates: setCount(value), setCount(count => count + d),
\* dispatch(action)
SetValue(v) == [op |-> "value", arg |-> v]
SetUpdater(d) == [op |-> "updater", arg |-> d]
DispatchAction(t) == [op |-> "action", arg |-> [type |-> t]]

ApplyUpdate(st, u) ==
    CASE u.op = "value" -> u.arg
      [] u.op = "updater" -> NumAdd(st, u.arg)
      [] u.op = "action" -> reducer(st, u.arg)

\* the updates of a queue applied in the order they were queued
RECURSIVE ApplyAll(_, _)
ApplyAll(st, q) ==
    IF q = <<>> THEN st ELSE ApplyAll(ApplyUpdate(st, Head(q).upd), Tail(q))

\* as reducerArgAfter, had the increment case been written
\* return { count: ++state.count }
reducerArgAfter_increment(state, action) ==
    IF action.type = "increment"
    THEN [count |-> NumAdd(state.count, Num(1))]
    ELSE state

\* the object passed to reducer as `state`, as the call leaves it: no case
\* assigns to it
reducerArgAfter(state, action) == state

\* whether reducer returns the object it was passed (the default case) or a
\* new object (the two object literals)
reducerReturnsArg(action) == action.type \notin {"increment", "decrement"}

\* the queued actions q run through reducer, for a hook whose state object
\* holds cur and is (isInit) or is not the initialState object, which holds
\* init: the hook's final state, whether that is still the initialState
\* object, and what the initialState object holds in the end
RECURSIVE RunReducer(_, _, _, _)
RunReducer(cur, isInit, init, q) ==
    IF q = <<>> THEN [state |-> cur, shared |-> isInit, initial |-> init]
    ELSE LET action == Head(q).upd.arg
             after == reducerArgAfter(cur, action)
             same == reducerReturnsArg(action)
         IN  RunReducer(IF same THEN after ELSE reducer(cur, action),
                        isInit /\ same,
                        IF isInit THEN after ELSE init,
                        Tail(q))

\* <p>Count: {count}</p>
Text(v, st) == "Count: " \o NumToString(Count(v, st))

----------------------------------------------------------------------------
(* Handler functions *)

\* the function object that render number n of an instance creates (the
\* first render is number 0)
Fn(name, n) == [name |-> name, render |-> n]
NoHandlers == [decrement |-> Fn("", 0), increment |-> Fn("", 0)]

\* as useCallback, had the dependency array been left out
useCallback_nodeps(memoized, fn, first) == fn

\* useCallback(fn, []): the function of the first render is kept, since the
\* empty dependency array never changes
useCallback(memoized, fn, first) == IF first THEN fn ELSE memoized

\* the onClick functions of the two buttons after render number n, prev
\* being those of the render before
Handlers(v, n, prev) ==
    CASE v = "Callback" ->
            [decrement |-> useCallback(prev.decrement, Fn("decrease", n), n = 0),
             increment |-> useCallback(prev.increment, Fn("increase", n), n = 0)]
      [] v = "DataAttribute" ->
            [decrement |-> useCallback(prev.decrement, Fn("update", n), n = 0),
             increment |-> useCallback(prev.increment, Fn("update", n), n = 0)]
      [] OTHER ->
            [decrement |-> Fn("decrement-button onClick", n),
             increment |-> Fn("increment-button onClick", n)]

----------------------------------------------------------------------------
(* Events *)

NoControl == Control("", Undefined)
Activation(ctl, pending) == [ev |-> "activate", ctl |-> ctl, pending |-> pending]
RenderEvent(pending) == [ev |-> "render", ctl |-> NoControl, pending |-> pending]

Activations(h) == SelectSeq(h, LAMBDA e : e.ev = "activate")
Renders(h) == SelectSeq(h, LAMBDA e : e.ev = "render")

\* a handler of instance i, run for control ctl, queues update u
Enqueue(i, ctl, u) ==
    /\ i \in mounted
    /\ events' = events + 1
    /\ queue' = [queue EXCEPT ![i] = Append(@, [upd |-> u, ctl |-> ctl])]
    /\ hist' = [hist EXCEPT ![i] = Append(@, Activation(ctl, queue[i] # <<>>))]
    /\ UNCHANGED <<mounted, memo, rendered, display, handlers, shares,
                   initialState>>

----------------------------------------------------------------------------
(* Handlers *)

\* as BasicDecrement, with the functional update of FunctionalCounter
BasicDecrement_functional(i) ==
    /\ Variant(i) = "Basic"
    /\ Enqueue(i, DecrementButton, SetUpdater(Num(-1)))

\* as BasicDecrement, with the sign of BasicIncrement
BasicDecrement_plus(i) ==
    /\ Variant(i) = "Basic"
    /\ Enqueue(i, DecrementButton, SetValue(NumAdd(rendered[i], Num(1))))

BasicDecrement(i) ==
    /\ Variant(i) = "Basic"
    /\ Enqueue(i, DecrementButton, SetValue(NumAdd(rendered[i], Num(-1))))

\* as BasicIncrement, with the functional update of FunctionalCounter
BasicIncrement_functional(i) ==
    /\ Variant(i) = "Basic"
    /\ Enqueue(i, IncrementButton, SetUpdater(Num(1)))

BasicIncrement(i) ==
    /\ Variant(i) = "Basic"
    /\ Enqueue(i, IncrementButton, SetValue(NumAdd(rendered[i], Num(1))))

FunctionalDecrement(i) ==
    /\ Variant(i) = "Functional"
    /\ Enqueue(i, DecrementButton, SetUpdater(Num(-1)))

FunctionalIncrement(i) ==
    /\ Variant(i) = "Functional"
    /\ Enqueue(i, IncrementButton, SetUpdater(Num(1)))

\* as decrease, had the memoized callback read the count of the first render:
\* useCallback(() => setCount(count - 1), [])
decrease_stale(i) ==
    /\ Variant(i) = "Callback"
    /\ Enqueue(i, DecrementButton, SetValue(NumAdd(Num(0), Num(-1))))

decrease(i) ==
    /\ Variant(i) = "Callback"
    /\ Enqueue(i, DecrementButton, SetUpdater(Num(-1)))

increase(i) ==
    /\ Variant(i) = "Callback"
    /\ Enqueue(i, IncrementButton, SetUpdater(Num(1)))

\* as Change, had the handler taken the direction of the delta only
\* (Math.sign of the parsed value)
Change_sign(ctl) ==
    LET d == parseInt(Coalesce(ctl.change, Str(<<"0">>)))
    IN  IF d.nan THEN NaN
        ELSE Num(IF d.val > 0 THEN 1 ELSE IF d.val < 0 THEN -1 ELSE 0)

\* const change = parseInt(e.currentTarget.dataset.change ?? '0')
Change(ctl) == parseInt(Coalesce(ctl.change, Str(<<"0">>)))

\* as update, had it read the count of its render: setCount(count + change)
update_stale(i, ctl) ==
    /\ Variant(i) = "DataAttribute"
    /\ Enqueue(i, ctl, SetValue(NumAdd(rendered[i], Change(ctl))))

update(i, ctl) ==
    /\ Variant(i) = "DataAttribute"
    /\ Enqueue(i, ctl, SetUpdater(Change(ctl)))

\* as dispatch, had the reducer thrown on an action type it does not know:
\* after such a dispatch the instance takes no further action
dispatch_strict(i, ctl, type) ==
    /\ Variant(i) = "Reducer"
    /\ \A k \in 1..Len(hist[i]) : hist[i][k].ctl.testid # "other"
    /\ Enqueue(i, ctl, DispatchAction(type))

\* as dispatch, had the reducer state been one module-level store that every
\* ReducerCounter reads
dispatch_shared(i, ctl, type) ==
    /\ Variant(i) = "Reducer"
    /\ i \in mounted
    /\ events' = events + 1
    /\ queue' = [j \in Instances |->
                    IF j \in mounted /\ Variant(j) = "Reducer"
                    THEN Append(queue[j], [upd |-> DispatchAction(type), ctl |-> ctl])
                    ELSE queue[j]]
    /\ hist' = [hist EXCEPT ![i] = Append(@, Activation(ctl, queue[i] # <<>>))]
    /\ UNCHANGED <<mounted, memo, rendered, display, handlers, shares,
                   initialState>>

dispatch(i, ctl, type) ==
    /\ Variant(i) = "Reducer"
    /\ Enqueue(i, ctl, DispatchAction(type))

ReducerDecrement(i) == dispatch(i, DecrementButton, "decrement")
ReducerIncrement(i) == dispatch(i, IncrementButton, "increment")
\* the dispatch entry point given an action no button sends
DispatchOther(i, type) == dispatch(i, Control("other", Undefined), type)

----------------------------------------------------------------------------
(* Rendering *)

\* what the render of instance i does to the state objects of useReducer
ReducerRun(i) ==
    IF Variant(i) = "Reducer"
    THEN RunReducer(memo[i], i \in shares, initialState, queue[i])
    ELSE [state |-> memo[i], shared |-> FALSE, initial |-> initialState]

\* the hook states after the render of i committed st: the hooks of the
\* other instances that hold the initialState object see what it holds now
MemoAfter(i, st, run) ==
    [j \in Instances |->
        IF j = i THEN st
        ELSE IF j \in shares THEN run.initial
        ELSE memo[j]]

\* as Render, had the <p> kept the text of the first render
Render_stale_text(i) ==
    /\ i \in mounted
    /\ events' = IF queue[i] # <<>> THEN events ELSE events + 1
    /\ LET st == ApplyAll(memo[i], queue[i])
           run == ReducerRun(i)
       IN  /\ memo' = MemoAfter(i, st, run)
           /\ rendered' = [rendered EXCEPT ![i] = st]
           /\ initialState' = run.initial
           /\ shares' = IF run.shared THEN shares ELSE shares \ {i}
    /\ handlers' = [handlers EXCEPT ![i] =
                        Handlers(Variant(i), Len(Renders(hist[i])) + 1, @)]
    /\ queue' = [queue EXCEPT ![i] = <<>>]
    /\ hist' = [hist EXCEPT ![i] = Append(@, RenderEvent(queue[i] # <<>>))]
    /\ UNCHANGED <<mounted, display>>

\* React renders instance i: the queued updates are applied in order, the
\* component function runs with the new state and the <p> text is committed
Render(i) ==
    /\ i \in mounted
    /\ events' = IF queue[i] # <<>> THEN events ELSE events + 1
    /\ LET st == ApplyAll(memo[i], queue[i])
           run == ReducerRun(i)
       IN  /\ memo' = MemoAfter(i, st, run)
           /\ rendered' = [rendered EXCEPT ![i] = st]
           /\ display' = [display EXCEPT ![i] = Text(Variant(i), st)]
           /\ initialState' = run.initial
           /\ shares' = IF run.shared THEN shares ELSE shares \ {i}
    /\ handlers' = [handlers EXCEPT ![i] =
                        Handlers(Variant(i), Len(Renders(hist[i])) + 1, @)]
    /\ queue' = [queue EXCEPT ![i] = <<>>]
    /\ hist' = [hist EXCEPT ![i] = Append(@, RenderEvent(queue[i] # <<>>))]
    /\ UNCHANGED mounted

\* as Mount, had the counters of one kind kept their state in one store that
\* mounting initialises
Mount_shared(i) ==
    /\ i \notin mounted
    /\ mounted' = mounted \cup {i}
    /\ LET st == InitialMemo(Variant(i))
       IN  /\ memo' = [j \in Instances |->
                         IF Variant(j) = Variant(i) THEN st ELSE memo[j]]
           /\ rendered' = [rendered EXCEPT ![i] = st]
           /\ display' = [display EXCEPT ![i] = Text(Variant(i), st)]
    /\ handlers' = [handlers EXCEPT ![i] = Handlers(Variant(i), 0, NoHandlers)]
    /\ queue' = [queue EXCEPT ![i] = <<>>]
    /\ hist' = [hist EXCEPT ![i] = <<>>]
    /\ shares' = IF Variant(i) = "Reducer" THEN shares \cup {i} ELSE shares
    /\ UNCHANGED <<events, initialState>>

\* an instance is mounted: its hook is initialised and it renders once
Mount(i) ==
    /\ i \notin mounted
    /\ mounted' = mounted \cup {i}
    /\ LET st == InitialMemo(Variant(i))
       IN  /\ memo' = [memo EXCEPT ![i] = st]
           /\ rendered' = [rendered EXCEPT ![i] = st]
           /\ display' = [display EXCEPT ![i] = Text(Variant(i), st)]
    /\ handlers' = [handlers EXCEPT ![i] = Handlers(Variant(i), 0, NoHandlers)]
    /\ queue' = [queue EXCEPT ![i] = <<>>]
    /\ hist' = [hist EXCEPT ![i] = <<>>]
    /\ shares' = IF Variant(i) = "Reducer" THEN shares \cup {i} ELSE shares
    /\ UNCHANGED <<events, initialState>>

----------------------------------------------------------------------------
(* The program *)

\* App has rendered: its five children are mounted
Init ==
    /\ initialState = [count |-> Num(0)]
    /\ mounted = AppInstances
    /\ memo = [i \in Instances |-> InitialMemo(Variant(i))]
    /\ rendered = memo
    /\ display = [i \in Instances |->
                    IF i \in AppInstances THEN "Count: 0" ELSE ""]
    /\ queue = [i \in Instances |-> <<>>]
    /\ hist = [i \in Instances |-> <<>>]
    /\ handlers = [i \in Instances |-> Handlers(Variant(i), 0, NoHandlers)]
    /\ events = 0
    /\ shares = {i \in AppInstances : Variant(i) = "Reducer"}

\* an activation or an unprompted render is taken while the budget lasts; a
\* render with updates queued is React's own and always allowed
Prompted(i) == queue[i] # <<>>

Step(max) ==
    \E i \in Instances :
        \/ events < max /\ BasicDecrement(i)
        \/ events < max /\ BasicIncrement(i)
        \/ events < max /\ FunctionalDecrement(i)
        \/ events < max /\ FunctionalIncrement(i)
        \/ events < max /\ decrease(i)
        \/ events < max /\ increase(i)
        \/ events < max /\ \E ctl \in DataControls : update(i, ctl)
        \/ events < max /\ ReducerDecrement(i)
        \/ events < max /\ ReducerIncrement(i)
        \/ events < max /\ \E t \in OtherTypes : DispatchOther(i, t)
        \/ (Prompted(i) \/ events < max) /\ Render(i)
        \/ Mount(i)

Next == Step(MaxEvents)

Spec == Init /\ [][Next]_vars

\* React schedules a render of an instance once an update is queued on it
Fairness == \A i \in Instances : WF_vars(Prompted(i) /\ Render(i))
FairNext == Step(MaxFairEvents)
FairSpec == Init /\ [][FairNext]_vars /\ Fairness

\* the FunctionalCounter and the CallbackCounter of App driven alone
NextPair ==
    \E i \in {2, 3} :
        \/ events < MaxPairEvents /\ FunctionalDecrement(i)
        \/ events < MaxPairEvents /\ FunctionalIncrement(i)
        \/ events < MaxPairEvents /\ decrease(i)
        \/ events < MaxPairEvents /\ increase(i)
        \/ (Prompted(i) \/ events < MaxPairEvents) /\ Render(i)

PairSpec == Init /\ [][NextPair]_vars

----------------------------------------------------------------------------
(* Properties *)

Acts(i) == Activations(hist[i])
NInc(i) == Len(SelectSeq(Acts(i), LAMBDA e : e.ctl.testid = "increment-button"))
NDec(i) == Len(SelectSeq(Acts(i), LAMBDA e : e.ctl.testid = "decrement-button"))
\* every activation of i so far came from one of its two buttons
OnlyButtons(i) == NInc(i) + NDec(i) = Len(Acts(i))
\* some activation of i found an update still queued (no render in between)
Batched(i) == \E k \in 1..Len(Acts(i)) : Acts(i)[k].pending
CountOf(i) == Count(Variant(i), memo[i])
\* the render of i that applies its queued updates
Applies(i) == i \in mounted /\ queue[i] # <<>> /\ queue'[i] = <<>>

LatestState == {"Functional", "Callback", "DataAttribute", "Reducer"}

\* C1: in FunctionalCounter, CallbackCounter, DataAttributeCounter (buttons
\* -1 and +1) and ReducerCounter, from count 0, after N increment and M
\* decrement activations in any order and any batching between renders, the
\* count is N - M once no update is queued.
C1_LatestStateCount ==
    \A i \in mounted :
        (Variant(i) \in LatestState /\ OnlyButtons(i) /\ queue[i] = <<>>)
            => CountOf(i) = Num(NInc(i) - NDec(i))

\* two increments and a decrement on the DataAttributeCounter, some of them
\* queued together, all applied
C1_Witness ==
    /\ queue[4] = <<>>
    /\ OnlyButtons(4) /\ NInc(4) = 2 /\ NDec(4) = 1
    /\ Batched(4)
    /\ memo[4] = Num(1)

\* the data-change attribute of the control is missing or parses to no integer
BadDelta(ctl) == ~ctl.change.present \/ parseInt(ctl.change).nan

\* C2: in DataAttributeCounter an activation whose control has a missing or
\* unparseable delta attribute is a delta of 0: applying it leaves the count
\* as it was.
C2_BadDeltaIsZero ==
    [][\A i \in Instances :
          (/\ Variant(i) = "DataAttribute"
           /\ Applies(i)
           /\ \A k \in 1..Len(queue[i]) : BadDelta(queue[i][k].ctl))
              => memo'[i] = memo[i]]_vars

\* C3: the count of every instance is an integer in every reachable state
\* (never NaN), also after activations of the DataAttributeCounter with
\* absent, numeric or non-numeric delta attributes.
C3_CountIsInteger ==
    \A i \in mounted :
        /\ ~CountOf(i).nan
        /\ ~Count(Variant(i), rendered[i]).nan

QueuedOfType(q, t) ==
    Len(SelectSeq(q, LAMBDA e : e.upd.op = "action" /\ e.upd.arg.type = t))

\* C4: in ReducerCounter an action whose type is neither 'increment' nor
\* 'decrement' leaves the state as it is, wherever it stands in a sequence of
\* dispatches: a render moves the count by the queued increments less the
\* queued decrements alone, and the count stays an integer (no error state).
C4_UnknownActionIdentity ==
    [][\A i \in Instances :
          (Variant(i) = "Reducer" /\ Applies(i))
              => /\ ~memo'[i].count.nan
                 /\ memo'[i].count.val = memo[i].count.val
                        + QueuedOfType(queue[i], "increment")
                        - QueuedOfType(queue[i], "decrement")]_vars

\* a 'reset' dispatched after an increment, both applied: the count is still 1
C4_Witness ==
    /\ queue[5] = <<>>
    /\ Len(Acts(5)) = 2
    /\ Acts(5)[1].ctl = IncrementButton
    /\ Acts(5)[2].ctl.testid = "other"
    /\ memo[5] = [count |-> Num(1)]

\* C5: in BasicCounter two increments queued from the handlers of one render
\* give the count that render captured plus 1, not plus 2; two decrements
\* give it minus 1.
C5_StaleClosure ==
    [][\A i \in Instances :
          (/\ Variant(i) = "Basic"
           /\ Applies(i)
           /\ Len(queue[i]) = 2
           /\ queue[i][1].ctl = queue[i][2].ctl)
              => memo'[i] = NumAdd(rendered[i],
                                   IF queue[i][1].ctl = IncrementButton
                                   THEN Num(1) ELSE Num(-1))]_vars

\* two increments of the BasicCounter without a render between them, applied
C5_Witness ==
    /\ Len(hist[1]) = 3
    /\ hist[1][1] = Activation(IncrementButton, FALSE)
    /\ hist[1][2] = Activation(IncrementButton, TRUE)
    /\ hist[1][3] = RenderEvent(TRUE)
    /\ memo[1] = Num(1)

\* C6: in BasicCounter, from count 0, with a render after every activation,
\* N increments and M decrements in any order give the count N - M.
C6_BasicRenderEach ==
    \A i \in mounted :
        (Variant(i) = "Basic" /\ ~Batched(i) /\ queue[i] = <<>>)
            => memo[i] = Num(NInc(i) - NDec(i))

\* increment, decrement, decrement, each rendered before the next
C6_Witness ==
    /\ queue[1] = <<>>
    /\ ~Batched(1)
    /\ NInc(1) = 1 /\ NDec(1) = 2
    /\ memo[1] = Num(-1)

\* C7: CallbackCounter and FunctionalCounter have the same transition
\* semantics: given the same activations and the same renders so far, they
\* have the same count, the same queued updates and the same display.
C7_SameSemantics ==
    hist[2] = hist[3]
        => /\ memo[2] = memo[3]
           /\ rendered[2] = rendered[3]
           /\ display[2] = display[3]
           /\ queue[2] = queue[3]

\* both were given two decrements queued together and then rendered
C7_Witness ==
    /\ hist[2] = hist[3]
    /\ hist[2] = <<Activation(DecrementButton, FALSE),
                   Activation(DecrementButton, TRUE),
                   RenderEvent(TRUE)>>
    /\ memo[3] = Num(-2)

\* C8: every instance has count 0 when mounted, and keeps it over any number
\* of renders as long as none of its controls was activated.
C8_InitialCount ==
    \A i \in mounted :
        Acts(i) = <<>>
            => /\ CountOf(i) = Num(0)
               /\ Count(Variant(i), rendered[i]) = Num(0)
               /\ display[i] = "Count: 0"

\* the second ReducerCounter was mounted while the first had counted, and
\* has rendered twice since
C8_Witness ==
    /\ 6 \in mounted
    /\ memo[5] = [count |-> Num(1)]
    /\ Len(Renders(hist[6])) = 2
    /\ Acts(6) = <<>>
    /\ display[6] = "Count: 0"

Own(i) == <<memo[i], queue[i], rendered[i], display[i]>>

\* C9: instances share no state: a step changes the state of one instance at
\* most (its hook state, its queued updates, what its render bound, its
\* display), and leaves every other instance as it was.
C9_NoSharing ==
    [][\A i \in Instances : \A j \in Instances \ {i} :
          Own(i)' # Own(i) => Own(j)' = Own(j)]_vars

\* both ReducerCounters are mounted; one was incremented, the
\* DataAttributeCounter decremented, the others show 0
C9_Witness ==
    /\ 6 \in mounted
    /\ memo[5] = [count |-> Num(1)]
    /\ memo[6] = [count |-> Num(0)]
    /\ memo[4] = Num(-1)
    /\ memo[1] = Num(0) /\ memo[2] = Num(0) /\ memo[3] = Num(0)
    /\ display[5] = "Count: 1" /\ display[6] = "Count: 0"

\* C10: the display follows the state: whenever no update is queued the text
\* is 'Count: <count>' for the committed count, and an instance with an update
\* queued is eventually rendered with none queued.
C10_DisplayFollowsState ==
    /\ [](\A i \in mounted :
            queue[i] = <<>> =>
                display[i] = "Count: " \o NumToString(CountOf(i)))
    /\ \A i \in Instances : (queue[i] # <<>>) ~> (queue[i] = <<>>)

\* the DataAttributeCounter was decremented twice before React rendered it
C10_Witness ==
    /\ queue[4] = <<>>
    /\ Acts(4) = <<Activation(DataDecrementButton, FALSE),
                   Activation(DataDecrementButton, TRUE)>>
    /\ memo[4] = Num(-2)
    /\ display[4] = "Count: -2"

\* C11: in CallbackCounter the decrement and increment handlers keep their
\* identity over every re-render: the functions the first render created are
\* the ones attached to the buttons after any number of updates and renders.
C11_StableHandlers ==
    \A i \in mounted :
        Variant(i) = "Callback"
            => /\ handlers[i].decrement = Fn("decrease", 0)
               /\ handlers[i].increment = Fn("increase", 0)

\* the CallbackCounter was incremented and rendered twice over, while the
\* BasicCounter, rendered once, has new handlers
C11_Witness ==
    /\ Len(Renders(hist[3])) = 2
    /\ memo[3] = Num(2)
    /\ handlers[3].increment = Fn("increase", 0)
    /\ Len(Renders(hist[1])) = 1
    /\ handlers[1].increment.render = 1

\* the integer a data-change attribute encodes
Encoded(change) ==
    CASE change = Str(<<"-", "1">>) -> -1
      [] change = Str(<<"1">>) -> 1
      [] change = Str(<<"2">>) -> 2
      [] change = Str(<<"-", "3">>) -> -3
EncodesInteger(change) ==
    change \in {Str(<<"-", "1">>), Str(<<"1">>), Str(<<"2">>), Str(<<"-", "3">>)}

RECURSIVE SumOfDeltas(_)
SumOfDeltas(acts) ==
    IF acts = <<>> THEN 0
    ELSE Encoded(Head(acts).ctl.change) + SumOfDeltas(Tail(acts))

\* C12: in DataAttributeCounter the one handler serves any signed integer
\* delta: after activations from controls whose attributes encode d1..dk,
\* however batched between renders, the count is d1 + ... + dk once no update
\* is queued.
C12_ArbitraryDeltas ==
    \A i \in mounted :
        (/\ Variant(i) = "DataAttribute"
         /\ queue[i] = <<>>
         /\ \A k \in 1..Len(Acts(i)) : EncodesInteger(Acts(i)[k].ctl.change))
            => memo[i] = Num(SumOfDeltas(Acts(i)))

\* deltas 2, -3 and 2 queued together and applied
C12_Witness ==
    /\ queue[4] = <<>>
    /\ Len(Acts(4)) = 3
    /\ Acts(4)[1].ctl.change = Str(<<"2">>)
    /\ Acts(4)[2].ctl.change = Str(<<"-", "3">>)
    /\ Acts(4)[3].ctl.change = Str(<<"2">>)
    /\ Acts(4)[2].pending /\ Acts(4)[3].pending
    /\ memo[4] = Num(1)
    /\ display[4] = "Count: 1"

\* every update queued on i came from its decrement button
AllDecrements(i) ==
    \A k \in 1..Len(queue[i]) : queue[i][k].ctl.testid = "decrement-button"

\* C13: the count has no lower clamp at 0: in every variant a decrement
\* applied to an integer count c gives c - 1, also at c = 0 and below; in the
\* latest-state variants k decrements queued together give c - k.
C13_NoLowerClamp ==
    [][\A i \in Instances :
          (/\ Applies(i)
           /\ AllDecrements(i)
           /\ ~CountOf(i).nan
           /\ Variant(i) = "Basic" => Len(queue[i]) = 1)
              => Count(Variant(i), memo'[i])
                    = Num(CountOf(i).val - Len(queue[i]))]_vars

\* the ReducerCounter went from 0 to -1 and, in a later render, on to -3
C13_Witness ==
    /\ hist[5] = <<Activation(DecrementButton, FALSE),
                   RenderEvent(TRUE),
                   Activation(DecrementButton, FALSE),
                   Activation(DecrementButton, TRUE),
                   RenderEvent(TRUE)>>
    /\ memo[5] = [count |-> Num(-3)]
    /\ display[5] = "Count: -3"

\* C14: the committed count of an instance changes only in the step that
\* applies updates queued by activations of its own controls: a render that
\* finds nothing queued, and every step of another instance, leave it as it
\* was.
C14_OnlyOwnUpdates ==
    [][\A i \in Instances :
          memo'[i] # memo[i]
              => /\ Applies(i)
                 /\ hist'[i] = Append(hist[i], RenderEvent(TRUE))
                 /\ \A j \in Instances \ {i} : hist'[j] = hist[j]
                 /\ Len(queue[i]) <= Len(Acts(i))]_vars

\* the BasicCounter was incremented, rendered, and rendered again with
\* nothing queued, and the FunctionalCounter was decremented since: the
\* BasicCounter still has 1
C14_Witness ==
    /\ hist[1] = <<Activation(IncrementButton, FALSE),
                   RenderEvent(TRUE), RenderEvent(FALSE)>>
    /\ memo[1] = Num(1)
    /\ memo[2] = Num(-1)

\* C15: ReducerCounter has no terminal state: in every reachable state of a
\* mounted instance the increment dispatch and the decrement dispatch are
\* both enabled.  (The handlers themselves are meant; the budget of events
\* that Step puts on a run is no part of them.)
C15_NoTerminalState ==
    \A i \in mounted :
        Variant(i) = "Reducer"
            => /\ ENABLED ReducerIncrement(i)
               /\ ENABLED ReducerDecrement(i)

\* the first ReducerCounter has taken a decrement, an unknown action and an
\* increment, and the second one is mounted: both can still be driven
C15_Witness ==
    /\ 6 \in mounted
    /\ queue[5] = <<>>
    /\ Len(Acts(5)) = 3
    /\ Acts(5)[1].ctl = DecrementButton
    /\ Acts(5)[2].ctl.testid = "other"
    /\ Acts(5)[3].ctl = IncrementButton
    /\ memo[5] = [count |-> Num(0)]
    /\ ENABLED ReducerIncrement(5) /\ ENABLED ReducerDecrement(5)
    /\ ENABLED ReducerIncrement(6) /\ ENABLED ReducerDecrement(6)

\* C16: in BasicCounter, k >= 1 activations queued from the handlers of one
\* render that captured count c give c + 1 if the last one was an increment
\* and c - 1 if it was a decrement (the last write wins), whatever the
\* activations before it were.
C16_LastWriteWins ==
    [][\A i \in Instances :
          (Variant(i) = "Basic" /\ Applies(i))
              => LET last == queue[i][Len(queue[i])].ctl
                 IN  memo'[i] = Num(rendered[i].val
                                      + (IF last = IncrementButton THEN 1 ELSE -1))]_vars

\* from 0, two decrements and then an increment queued together leave 1,
\* where the three activations add up to -1: the result lies above the sum
C16_Witness ==
    /\ hist[1] = <<Activation(DecrementButton, FALSE),
                   Activation(DecrementButton, TRUE),
                   Activation(IncrementButton, TRUE),
                   RenderEvent(TRUE)>>
    /\ NInc(1) - NDec(1) = -1
    /\ memo[1] = Num(1)
    /\ display[1] = "Count: 1"

\* a data-change attribute that is present and parses to no integer
NotAnInteger(change) == change \in {Str(<<>>), Str(<<"a", "b", "c">>)}
Poisoned(i) == \E k \in 1..Len(Acts(i)) : NotAnInteger(Acts(i)[k].ctl.change)

RECURSIVE SumWithAbsentAsZero(_)
SumWithAbsentAsZero(acts) ==
    IF acts = <<>> THEN 0
    ELSE (IF Head(acts).ctl.change = Undefined THEN 0
          ELSE Encoded(Head(acts).ctl.change))
            + SumWithAbsentAsZero(Tail(acts))

\* C17: in DataAttributeCounter, once an activation carried a delta attribute
\* that is present but parses to no integer ('' or 'abc'), the count is NaN
\* and stays NaN after every later activation, valid ones included; an absent
\* attribute alone counts as delta 0.
C17_NaNSticks ==
    \A i \in mounted :
        (Variant(i) = "DataAttribute" /\ queue[i] = <<>>)
            => IF Poisoned(i)
               THEN memo[i] = NaN /\ display[i] = "Count: NaN"
               ELSE memo[i] = Num(SumWithAbsentAsZero(Acts(i)))

\* an activation with data-change '' was applied, and an increment after it
C17_Witness ==
    /\ hist[4] = <<Activation(Control("other", Str(<<>>)), FALSE),
                   RenderEvent(TRUE),
                   Activation(DataIncrementButton, FALSE),
                   RenderEvent(TRUE)>>
    /\ memo[4] = NaN
    /\ display[4] = "Count: NaN"

\* C18: the reducer never changes the state object it is given: a known
\* action gives the hook a new object and an unknown one leaves it the same
\* object, so the module-level initialState holds count 0 in every reachable
\* state and a ReducerCounter starts at 0 whatever was dispatched on other
\* instances before.
C18_InitialStateIntact ==
    /\ initialState = [count |-> Num(0)]
    /\ \A i \in mounted :
          Variant(i) = "Reducer"
              => /\ hist[i] = <<>>
                    => memo[i] = [count |-> Num(0)] /\ display[i] = "Count: 0"
                 /\ queue[i] = <<>>
                    => (i \in shares <=> NInc(i) + NDec(i) = 0)

\* the first ReducerCounter took an unknown action and two increments; the
\* second one is mounted, untouched, and alone holds the initialState object
C18_Witness ==
    /\ queue[5] = <<>>
    /\ Len(Acts(5)) = 3 /\ NInc(5) = 2 /\ NDec(5) = 0
    /\ memo[5] = [count |-> Num(2)]
    /\ 6 \in mounted /\ hist[6] = <<>>
    /\ memo[6] = [count |-> Num(0)]
    /\ shares = {6}

====
